---- MODULE Spec2Model ----
(***************************************************************************)
(* The foreign-callable sort entry points of src/libcxx_stable/             *)
(* libcxx_sort.cpp: eight extern "C" wrappers (four per element type)       *)
(* that hand the caller's range [data, data + len) to std::stable_sort or   *)
(* std::sort, with operator< or with the closure built by make_compare_fn.  *)
(*                                                                         *)
(* The two standard algorithms are library code; they are modelled by what  *)
(* the C++ standard lets a caller rely on ([alg.sorting], [sort],           *)
(* [stable.sort]): on a range whose comparison is a strict weak ordering    *)
(* they leave a sorted permutation of the range (the stable one for         *)
(* std::stable_sort, any sorted one for std::sort); with any other          *)
(* comparison the behaviour is undefined. That is modelled as a             *)
(* nondeterministic choice over what library builds do with it: both         *)
(* algorithms may return with the range in any arrangement; std::sort,       *)
(* whose partition and insertion loops rely on the ordering to stop, may     *)
(* also touch memory next to the range or never return (std::stable_sort's   *)
(* merges and insertions are bounded by both ends of the range).             *)
(*                                                                         *)
(* Machine integers keep their width: an element is a big-endian sequence   *)
(* of 16-bit limbs (two for int32_t, four for uint64_t).                    *)
(***************************************************************************)
EXTENDS Integers, Sequences, FiniteSets, TLC

VARIABLES mem, ty, len, ctxs, pc, req, frame, input, called, touched

vars == <<mem, ty, len, ctxs, pc, req, frame, input, called, touched>>

\* Longest buffer a caller passes.
MaxLen == 3

Threads == {1, 2}
Types == {"i32", "u64"}
LimbBase == 2 ^ 16
SignBit == 2 ^ 15
NoVal == "none"

-----------------------------------------------------------------------------
(* Element types: int32_t and uint64_t as limb sequences.                   *)

Limbs(t) == IF t = "i32" THEN 2 ELSE 4

\* int32_t values -1, 1, 2, 3
I32Vals == { <<LimbBase - 1, LimbBase - 1>>, <<0, 1>>, <<0, 2>>, <<0, 3>> }
\* uint64_t values 0, 1, 2^64 - 1
U64Vals == { <<0, 0, 0, 0>>, <<0, 0, 0, 1>>,
             <<LimbBase - 1, LimbBase - 1, LimbBase - 1, LimbBase - 1>> }

Vals(t) == IF t = "i32" THEN I32Vals ELSE U64Vals

\* What lies in memory around a buffer: the value 0 of the element type.
Pad(t) == [k \in 1..Limbs(t) |-> 0]

\* Unsigned comparison of two words of the same width.
ULess(a, b) ==
    \E k \in 1..Len(a) : /\ a[k] < b[k]
                         /\ \A j \in 1..(k - 1) : a[j] = b[j]

\* Two's complement: flipping the sign bit turns signed order into unsigned.
FlipSign(a) == [a EXCEPT ![1] = (a[1] + SignBit) % LimbBase]

SLess(a, b) == ULess(FlipSign(a), FlipSign(b))

\* Mutants: every element compared as unsigned / as signed.
NaturalLessUnsigned(t, a, b) == ULess(a, b)
NaturalLessSigned(t, a, b) == SLess(a, b)

\* operator< of the element type, as std::sort(data, data + len) uses it.
NaturalLess(t, a, b) == IF t = "i32" THEN SLess(a, b) ELSE ULess(a, b)

RECURSIVE Inc(_)
\* a + 1 modulo 2^(16 * Len(a))
Inc(a) ==
    IF a = <<>> THEN <<>>
    ELSE LET n == Len(a) IN
         IF a[n] + 1 < LimbBase THEN [a EXCEPT ![n] = a[n] + 1]
         ELSE Inc(SubSeq(a, 1, n - 1)) \o <<0>>

\* -a modulo 2^(16 * Len(a))
Neg(a) == Inc([k \in 1..Len(a) |-> LimbBase - 1 - a[k]])

-----------------------------------------------------------------------------
(* The caller's side: predicates and the state their ctx points to.         *)

\* ctx is a uint8_t*: two addresses in caller memory, holding the bytes
\* 0x01 and 0xFF (the multiplier +1 and, read as int8_t, -1).
CtxPtrs == {"ctxA", "ctxB"}
CtxByte(c) == IF c = "ctxA" THEN 1 ELSE LimbBase \div 256 - 1

\* "lt"  a < b                      (strict weak ordering)
\* "key" (a >> 16) < (b >> 16)      (strict weak ordering on a part of the element)
\* "mul" a * m < b * m, m = *ctx    (strict weak ordering, uses ctx)
\* "le"  a <= b                     (reflexive: not a strict weak ordering)
\* "ne"  a != b                     (symmetric: not a strict weak ordering)
CmpFns == {"lt", "key", "mul", "le", "ne"}

KeyOf(a) == [a EXCEPT ![Len(a)] = 0]
Mul(a, m) == IF m = 1 THEN a ELSE Neg(a)

\* bool cmp_fn(const T& a, const T& b, uint8_t* ctx)
CmpFn(fn, t, a, b, ctx) ==
    CASE fn = "lt"  -> NaturalLess(t, a, b)
      [] fn = "key" -> NaturalLess(t, KeyOf(a), KeyOf(b))
      [] fn = "mul" -> NaturalLess(t, Mul(a, CtxByte(ctx)), Mul(b, CtxByte(ctx)))
      [] fn = "le"  -> ~NaturalLess(t, b, a)
      [] fn = "ne"  -> a # b

-----------------------------------------------------------------------------
(* Memory: one address space of element cells. Thread 1's buffer starts at  *)
(* address 1 and thread 2's follows it directly (two adjacent slices of one  *)
(* array); one cell lies before the first buffer and at least one after the  *)
(* second.                                                                   *)

MemSize == 2 * MaxLen + 2
Addr == 0..(MemSize - 1)
Base(t) == IF t = 1 THEN 1 ELSE 1 + len[1]

\* The buffer data[0..len) of thread t.
Buf(t) == Base(t)..(Base(t) + len[t] - 1)
Data(t) == [k \in 1..len[t] |-> mem[Base(t) + k - 1]]

RangeSeq(f) == [k \in 1..(f.last - f.first) |-> mem[f.first + k - 1]]
RangeAddrs(f) == f.first..(f.last - 1)

-----------------------------------------------------------------------------
(* make_compare_fn and the comparison objects handed to the library.        *)

\* Mutant: the context is not captured; a fixed one is passed on instead.
make_compare_fn_fixed_ctx(cmp_fn, ctx) == [cmp_fn |-> cmp_fn, ctx |-> "ctxA"]

\* The lambda's capture list [cmp_fn, ctx]: both captured by value.
make_compare_fn(cmp_fn, ctx) == [cmp_fn |-> cmp_fn, ctx |-> ctx]

\* The two-argument overloads compare with operator<.
OperatorLess == [cmp_fn |-> "less", ctx |-> NoVal]

\* Mutant: the two element references are passed in the wrong order.
ForwardSwapped(c, a, b) == <<c.cmp_fn, b, a, c.ctx>>

\* The lambda's body: cmp_fn(a, b, ctx), as <<callee, a, b, ctx>>.
Forward(c, a, b) == <<c.cmp_fn, a, b, c.ctx>>

\* comp(x, y) for two values of element type t.
CompCall(c, t, x, y) ==
    IF c.cmp_fn = "less" THEN NaturalLess(t, x, y)
    ELSE LET args == Forward(c, x, y)
         IN  CmpFn(args[1], t, args[2], args[3], args[4])

\* The caller's predicate as comp invokes it: the function pointer called and
\* the ctx handed to it; operator< calls nothing of the caller's.
Invoked(c) ==
    IF c.cmp_fn = "less" THEN {}
    ELSE LET args == Forward(c, NoVal, NoVal)
         IN  {[fn |-> args[1], ctx |-> args[4]]}

-----------------------------------------------------------------------------
(* The library's contract.                                                  *)

\* The permutations of 1..n, for every length a range can have.
PermTable ==
    [n \in 0..(MaxLen + 1) |->
        {p \in [1..n -> 1..n] : \A i, j \in 1..n : p[i] = p[j] => i = j}]
Perms(n) == PermTable[n]
Apply(s, p) == [k \in 1..Len(s) |-> s[p[k]]]

\* comp as a relation on the values of a range: L[x, y] is comp(x, y).
CompRel(c, t, s) ==
    LET V == {s[k] : k \in 1..Len(s)}
    IN  [x \in V, y \in V |-> CompCall(c, t, x, y)]

\* [alg.sorting]/3: L is a strict weak ordering on the values S.
IsSWO(S, L) ==
    /\ \A a \in S : ~L[a, a]
    /\ \A a, b, c \in S : L[a, b] /\ L[b, c] => L[a, c]
    /\ \A a, b, c \in S :
          (~L[a, b] /\ ~L[b, a] /\ ~L[b, c] /\ ~L[c, b]) => (~L[a, c] /\ ~L[c, a])

\* [sort]: the range is left sorted with respect to comp.
SortOutcomes(s, L) ==
    {p \in Perms(Len(s)) :
        \A k \in 1..(Len(s) - 1) : ~L[s[p[k + 1]], s[p[k]]]}

\* [stable.sort]: sorted, and the relative order of equivalent elements kept.
StableSortOutcomes(s, L) ==
    {p \in Perms(Len(s)) :
        \A k, l \in 1..Len(s) :
            k < l => \/ L[s[p[k]], s[p[l]]]
                     \/ (~L[s[p[l]], s[p[k]]] /\ p[k] < p[l])}

\* The comparison of frame f meets the precondition on f's range. A range
\* of fewer than two elements is never compared at all.
Valid(f, t) ==
    LET s == RangeSeq(f)
    IN  Len(s) < 2 \/ IsSWO({s[k] : k \in 1..Len(s)}, CompRel(f.comp, t, s))

-----------------------------------------------------------------------------
(* The entry points.                                                        *)

NoFrame == [alg |-> "none", first |-> 0, last |-> 0, comp |-> OperatorLess]

\* Mutants: the range starts one element early / ends one element late.
RangeFirstBefore(data, n) == data - 1
RangeLastPastEnd(data, n) == data + n + 1

\* The iterator pair (data, data + len) every wrapper passes.
RangeFirst(data, n) == data
RangeLast(data, n) == data + n

\* Mutant: the stable entry points call std::sort.
StableAlgUnstable == "sort"

\* The algorithm behind the stable and the unstable entry points.
StableAlg == "stable_sort"
UnstableAlg == "sort"

\* A call of entry point op by thread t: the wrapper's one statement, up to
\* the point where the library starts on the range. req keeps the arguments
\* the caller passed.
Enter(t, elem, op, cmp_fn, ctx, alg, comp) ==
    /\ pc[t] = "idle"
    /\ ty[t] = elem
    /\ req' = [req EXCEPT ![t] = [op |-> op, cmp_fn |-> cmp_fn, ctx |-> ctx]]
    /\ frame' = [frame EXCEPT ![t] =
                    [alg |-> alg,
                     first |-> RangeFirst(Base(t), len[t]),
                     last |-> RangeLast(Base(t), len[t]),
                     comp |-> comp]]
    /\ pc' = [pc EXCEPT ![t] = "run"]
    /\ UNCHANGED <<mem, ty, len, ctxs, input, called, touched>>

sort_stable_i32(t) ==
    /\ Enter(t, "i32", "sort_stable", "less", NoVal, StableAlg, OperatorLess)

sort_stable_i32_by(t) ==
    \E cmp_fn \in CmpFns, ctx \in ctxs[t] :
        Enter(t, "i32", "sort_stable_by", cmp_fn, ctx,
              StableAlg, make_compare_fn(cmp_fn, ctx))

sort_unstable_i32(t) ==
    /\ Enter(t, "i32", "sort_unstable", "less", NoVal, UnstableAlg, OperatorLess)

sort_unstable_i32_by(t) ==
    \E cmp_fn \in CmpFns, ctx \in ctxs[t] :
        Enter(t, "i32", "sort_unstable_by", cmp_fn, ctx,
              UnstableAlg, make_compare_fn(cmp_fn, ctx))

sort_stable_u64(t) ==
    /\ Enter(t, "u64", "sort_stable", "less", NoVal, StableAlg, OperatorLess)

sort_stable_u64_by(t) ==
    \E cmp_fn \in CmpFns, ctx \in ctxs[t] :
        Enter(t, "u64", "sort_stable_by", cmp_fn, ctx,
              StableAlg, make_compare_fn(cmp_fn, ctx))

sort_unstable_u64(t) ==
    /\ Enter(t, "u64", "sort_unstable", "less", NoVal, UnstableAlg, OperatorLess)

sort_unstable_u64_by(t) ==
    \E cmp_fn \in CmpFns, ctx \in ctxs[t] :
        Enter(t, "u64", "sort_unstable_by", cmp_fn, ctx,
              UnstableAlg, make_compare_fn(cmp_fn, ctx))

-----------------------------------------------------------------------------
(* Inside the library call.                                                 *)

\* One comparison: comp applied to two elements of the range, at least one
\* of them not examined before (a repeated comparison changes nothing here).
StdCompare(t) ==
    LET f == frame[t] IN
    /\ pc[t] = "run"
    /\ f.last - f.first >= 2
    /\ \E i, j \in RangeAddrs(f) :
          /\ i < j
          /\ ~({i, j} \subseteq touched[t])
          /\ touched' = [touched EXCEPT ![t] = @ \cup {i, j}]
    /\ called' = [called EXCEPT ![t] = @ \cup Invoked(f.comp)]
    /\ UNCHANGED <<mem, ty, len, ctxs, pc, req, frame, input>>

\* The range rewritten as s, and the call returning.
Finish(t, s) ==
    LET f == frame[t] IN
    /\ mem' = [a \in Addr |->
                 IF a \in RangeAddrs(f) THEN s[a - f.first + 1] ELSE mem[a]]
    /\ touched' = [touched EXCEPT ![t] = @ \cup RangeAddrs(f)]
    /\ pc' = [pc EXCEPT ![t] = "done"]
    /\ UNCHANGED <<ty, len, ctxs, req, frame, input, called>>

\* No element of a range of two or more is placed without being compared.
Compared(t) ==
    frame[t].last - frame[t].first >= 2 => RangeAddrs(frame[t]) \subseteq touched[t]

StdSortReturn(t) ==
    LET f == frame[t]
        s == RangeSeq(f)
        L == CompRel(f.comp, ty[t], s)
    IN  /\ pc[t] = "run"
        /\ f.alg = "sort"
        /\ Compared(t)
        /\ Valid(f, ty[t])
        /\ \E p \in SortOutcomes(s, L) : Finish(t, Apply(s, p))

StdStableSortReturn(t) ==
    LET f == frame[t]
        s == RangeSeq(f)
        L == CompRel(f.comp, ty[t], s)
    IN  /\ pc[t] = "run"
        /\ f.alg = "stable_sort"
        /\ Compared(t)
        /\ Valid(f, ty[t])
        /\ \E p \in StableSortOutcomes(s, L) : Finish(t, Apply(s, p))

\* Undefined behaviour (comp is no strict weak ordering): either algorithm
\* returns with the range in some arrangement,
UBReturn(t) ==
    LET f == frame[t]
        s == RangeSeq(f)
    IN  /\ pc[t] = "run"
        /\ Compared(t)
        /\ ~Valid(f, ty[t])
        /\ \E p \in Perms(Len(s)) : Finish(t, Apply(s, p))

\* or, in std::sort, an unguarded scan runs off the range and an element is
\* exchanged with the cell just before or just after it,
UBOutOfBounds(t) ==
    LET f == frame[t] IN
    /\ pc[t] = "run"
    /\ f.alg = "sort"
    /\ Compared(t)
    /\ ~Valid(f, ty[t])
    /\ \E x \in {f.first - 1, f.last} \cap Addr, i \in RangeAddrs(f) :
          /\ mem' = [mem EXCEPT ![i] = mem[x], ![x] = mem[i]]
          /\ touched' = [touched EXCEPT ![t] = @ \cup RangeAddrs(f) \cup {x}]
    /\ pc' = [pc EXCEPT ![t] = "done"]
    /\ UNCHANGED <<ty, len, ctxs, req, frame, input, called>>

\* or std::sort never returns.
UBHang(t) ==
    /\ pc[t] = "run"
    /\ frame[t].alg = "sort"
    /\ Compared(t)
    /\ ~Valid(frame[t], ty[t])
    /\ pc' = [pc EXCEPT ![t] = "hung"]
    /\ UNCHANGED <<mem, ty, len, ctxs, req, frame, input, called, touched>>

-----------------------------------------------------------------------------
(* Specifications.                                                          *)

Seqs(S, n) == UNION {[1..k -> S] : k \in 0..n}

\* Memory holding the two input buffers one after the other, padding
\* everywhere else.
MemOf(e, ins) ==
    [a \in Addr |->
        IF a >= 1 /\ a <= Len(ins[1]) THEN ins[1][a]
        ELSE IF a > Len(ins[1]) /\ a <= Len(ins[1]) + Len(ins[2])
             THEN ins[2][a - Len(ins[1])]
             ELSE Pad(e)]

InitWith(e, ins, pcs, cs) ==
    /\ ty = [t \in Threads |-> e]
    /\ input = ins
    /\ len = [t \in Threads |-> Len(ins[t])]
    /\ mem = MemOf(e, ins)
    /\ ctxs = cs
    /\ pc = pcs
    /\ frame = [t \in Threads |-> NoFrame]
    /\ req = [t \in Threads |-> NoVal]
    /\ called = [t \in Threads |-> {}]
    /\ touched = [t \in Threads |-> {}]

\* One caller: thread 1 makes one call on any buffer of up to MaxLen
\* elements of either type; thread 2 never runs.
Init ==
    \E e \in Types : \E s \in Seqs(Vals(e), MaxLen) :
        InitWith(e,
                 [t \in Threads |-> IF t = 1 THEN s ELSE <<>>],
                 [t \in Threads |-> IF t = 1 THEN "idle" ELSE "off"],
                 [t \in Threads |-> CtxPtrs])

\* Two callers on separate threads, each with one call to make on its own
\* slice and its own context.
ConcVals(e) == IF e = "i32" THEN {<<0, 1>>, <<0, 2>>}
               ELSE {<<0, 0, 0, 0>>, <<0, 0, 0, 1>>}
ConcInputs(e) == {<<>>} \cup [1..2 -> ConcVals(e)]

InitConc ==
    \E e \in Types : \E s1, s2 \in ConcInputs(e) :
        InitWith(e,
                 [t \in Threads |-> IF t = 1 THEN s1 ELSE s2],
                 [t \in Threads |-> "idle"],
                 [t \in Threads |-> IF t = 1 THEN {"ctxA"} ELSE {"ctxB"}])

Step(t) ==
    \/ sort_stable_i32(t)
    \/ sort_stable_i32_by(t)
    \/ sort_unstable_i32(t)
    \/ sort_unstable_i32_by(t)
    \/ sort_stable_u64(t)
    \/ sort_stable_u64_by(t)
    \/ sort_unstable_u64(t)
    \/ sort_unstable_u64_by(t)
    \/ StdCompare(t)
    \/ StdSortReturn(t)
    \/ StdStableSortReturn(t)
    \/ UBReturn(t)
    \/ UBOutOfBounds(t)
    \/ UBHang(t)

Next == \E t \in Threads : Step(t)

Spec == Init /\ [][Next]_vars

SpecConc == InitConc /\ [][Next]_vars

-----------------------------------------------------------------------------
(* Vocabulary of the properties.                                            *)

Running(t) == pc[t] \in {"run", "done", "hung"}
Natural(t) == req[t].op \in {"sort_stable", "sort_unstable"}
StableOp(t) == req[t].op \in {"sort_stable", "sort_stable_by"}

\* The values of each element type in ascending numeric order
\* (int32_t: -1, 0, 1, 2, 3; uint64_t: 0, 1, 2^64 - 1).
Ascending(e) ==
    IF e = "i32"
    THEN << <<LimbBase - 1, LimbBase - 1>>, <<0, 0>>, <<0, 1>>, <<0, 2>>, <<0, 3>> >>
    ELSE << <<0, 0, 0, 0>>, <<0, 0, 0, 1>>,
            <<LimbBase - 1, LimbBase - 1, LimbBase - 1, LimbBase - 1>> >>
Rank(e, v) == CHOOSE k \in 1..Len(Ascending(e)) : Ascending(e)[k] = v

\* The ordering the caller asked for: the numeric '<' of the element type,
\* or the caller's predicate applied with the caller's ctx.
ReqLess(t, x, y) ==
    IF Natural(t) THEN Rank(ty[t], x) < Rank(ty[t], y)
    ELSE CmpFn(req[t].cmp_fn, ty[t], x, y, req[t].ctx)
ReqEquiv(t, x, y) == ~ReqLess(t, x, y) /\ ~ReqLess(t, y, x)

ValuesOf(s) == {s[k] : k \in 1..Len(s)}
Count(s, v) == Cardinality({k \in 1..Len(s) : s[k] = v})
SortedBy(t, s) == \A k \in 1..(Len(s) - 1) : ~ReqLess(t, s[k + 1], s[k])

\* The caller's predicate is a strict weak ordering on the input (the
\* comparator validity contract); a buffer of fewer than two elements asks
\* nothing of it.
InContract(t) ==
    /\ Running(t)
    /\ \/ len[t] < 2
       \/ IsSWO(ValuesOf(input[t]),
                [x \in ValuesOf(input[t]), y \in ValuesOf(input[t]) |->
                    ReqLess(t, x, y)])

\* Memory outside thread t's buffer, and outside the other buffer while the
\* other thread is not running, is what it was before the calls.
InitialMem == MemOf(ty[1], input)
OutsideUnchanged(t) ==
    \A a \in Addr :
        (a \notin Buf(t) /\ \A u \in Threads \ {t} : a \in Buf(u) => ~Running(u))
            => mem[a] = InitialMem[a]

-----------------------------------------------------------------------------
C2_Ordered ==
    \A t \in Threads :
        (pc[t] = "done" /\ InContract(t)) => SortedBy(t, Data(t))

\* A call with a caller's predicate returned after sorting an unsorted buffer.
C2_Witness ==
    /\ pc[1] = "done" /\ InContract(1)
    /\ ~Natural(1) /\ len[1] = 3
    /\ ~SortedBy(1, input[1])

(* C3: the stable entry points keep equivalent elements in input order: for  *)
(* every value v the elements equivalent to v appear in the output in the    *)
(* order they had in the input.                                              *)
Class(t, s, v) == SelectSeq(s, LAMBDA x : ReqEquiv(t, x, v))
C3_Stable ==
    \A t \in Threads :
        (pc[t] = "done" /\ InContract(t) /\ StableOp(t)) =>
            \A v \in ValuesOf(input[t]) :
                Class(t, Data(t), v) = Class(t, input[t], v)

\* A stable call by key returned with two distinct equal-keyed elements,
\* having moved another element past them.
C3_Witness ==
    /\ pc[1] = "done" /\ req[1].op = "sort_stable_by" /\ req[1].cmp_fn = "key"
    /\ Data(1) # input[1]
    /\ \E i, j \in 1..len[1] :
          i < j /\ input[1][i] # input[1][j]
                /\ ReqEquiv(1, input[1][i], input[1][j])

(* C4 as stated: sorting an already sorted buffer leaves every element where *)
(* it was, for all four operations.                                          *)
C4_Idempotent ==
    \A t \in Threads :
        (pc[t] = "done" /\ InContract(t) /\ SortedBy(t, input[t])) =>
            Data(t) = input[t]

\* Two distinct values of the input are equivalent under the ordering.
HasTies(t) ==
    \E x, y \in ValuesOf(input[t]) : x # y /\ ReqEquiv(t, x, y)

(* C4 amended: an already sorted buffer is left as it was by the stable      *)
(* entry points, and by the unstable ones when no two distinct values of    *)
(* the input are equivalent; otherwise every position still holds an        *)
(* element equivalent to the one it held.                                   *)
C4_IdempotentUpToTies ==
    \A t \in Threads :
        (pc[t] = "done" /\ InContract(t) /\ SortedBy(t, input[t])) =>
            /\ (StableOp(t) \/ ~HasTies(t)) => Data(t) = input[t]
            /\ \A k \in 1..len[t] :
                  Data(t)[k] = input[t][k] \/ ReqEquiv(t, Data(t)[k], input[t][k])

\* An unstable call by key has returned on a sorted buffer of three with
\* equal-keyed distinct values, and the buffer is not what it was.
C4_Witness ==
    /\ pc[1] = "done" /\ InContract(1) /\ SortedBy(1, input[1])
    /\ len[1] = 3 /\ req[1].op = "sort_unstable_by" /\ req[1].cmp_fn = "key"
    /\ HasTies(1) /\ Data(1) # input[1]

(* C5: a call with a predicate that is no strict weak ordering still         *)
(* returns: until it has returned it always has a next step.                 *)
C5_Terminates ==
    \A t \in Threads :
        (Running(t) /\ ~Natural(t) /\ ~InContract(t)) =>
            (pc[t] = "done" \/ ENABLED Step(t))

(* C6: whatever the predicate, a call touches no address outside its        *)
(* buffer, and memory next to the buffer is unchanged when it returns.       *)
C6_InBounds ==
    \A t \in Threads :
        Running(t) =>
            /\ touched[t] \subseteq Buf(t)
            /\ pc[t] = "done" => OutsideUnchanged(t)

(* C7: a call on a buffer of no or one element returns, leaves the buffer    *)
(* and everything else as it was, and never invokes the predicate.           *)
C7_Boundary ==
    \A t \in Threads :
        (Running(t) /\ len[t] <= 1) =>
            /\ pc[t] = "done" \/ ENABLED Step(t)
            /\ called[t] = {}
            /\ touched[t] \subseteq Buf(t)
            /\ Data(t) = input[t]
            /\ OutsideUnchanged(t)

\* A one-element call with a predicate that is no strict weak ordering
\* has returned.
C7_Witness ==
    /\ pc[1] = "done" /\ len[1] = 1
    /\ req[1].op = "sort_unstable_by" /\ req[1].cmp_fn = "le"

(* C8: every invocation of the predicate calls the caller's cmp_fn with the  *)
(* caller's ctx, which the comparison object holds unchanged for the whole   *)
(* call; and with the multiplier -1 behind ctx, the predicate a * m < b * m  *)
(* sorts [1, 2, 3] into [3, 2, 1].                                           *)
C8_Context ==
    \A t \in Threads :
        Running(t) =>
            /\ called[t] \subseteq {[fn |-> req[t].cmp_fn, ctx |-> req[t].ctx]}
            /\ ~Natural(t) =>
                  frame[t].comp = [cmp_fn |-> req[t].cmp_fn, ctx |-> req[t].ctx]
            /\ (/\ pc[t] = "done" /\ ty[t] = "i32"
                /\ ~Natural(t) /\ req[t].cmp_fn = "mul" /\ req[t].ctx = "ctxB"
                /\ input[t] = << <<0, 1>>, <<0, 2>>, <<0, 3>> >>)
               => Data(t) = << <<0, 3>>, <<0, 2>>, <<0, 1>> >>

\* The multiplier scenario has run, and the predicate was invoked in it.
C8_Witness ==
    /\ pc[1] = "done" /\ req[1].op = "sort_stable_by"
    /\ req[1].cmp_fn = "mul" /\ req[1].ctx = "ctxB"
    /\ input[1] = << <<0, 1>>, <<0, 2>>, <<0, 3>> >>
    /\ called[1] # {}

(* C9: two calls in flight on adjacent buffers, both within the comparator   *)
(* contract: neither touches the other's buffer, a buffer is what its       *)
(* caller put there until its own call returns, and then it is a result of   *)
(* that call alone: a sorted permutation of its input, stable if asked.      *)
OtherOK(t) == \A u \in Threads \ {t} : pc[u] = "idle" \/ InContract(u)
C10_FullWidth ==
    \A t \in Threads :
        (pc[t] = "done" /\ Natural(t)) =>
            /\ \A k \in 1..(len[t] - 1) :
                  Rank(ty[t], Data(t)[k]) <= Rank(ty[t], Data(t)[k + 1])
            /\ (ty[t] = "u64" /\ input[t] = <<Ascending("u64")[3],
                                               Ascending("u64")[1],
                                               Ascending("u64")[2]>>)
               => Data(t) = Ascending("u64")
            /\ (ty[t] = "i32" /\ input[t] = <<Ascending("i32")[3], Ascending("i32")[1]>>)
               => Data(t) = <<Ascending("i32")[1], Ascending("i32")[3]>>

\* The uint64_t example has been sorted by the unstable natural-order entry
\* point.
C10_Witness ==
    /\ pc[1] = "done" /\ req[1].op = "sort_unstable"
    /\ input[1] = <<Ascending("u64")[3], Ascending("u64")[1], Ascending("u64")[2]>>
    /\ Data(1) # input[1]

====
